---------------------------- MODULE Spec2Model ----------------------------
(***************************************************************************)
(* State-machine model of the SwiftXR 3D editor                            *)
(*   src/src/components/SwiftXR3DEditor.js  (reducer, pointer handlers,     *)
(*                                           import handler)               *)
(*   src/src/hooks/useThreeScene.js         (orbit camera, scene)          *)
(*   src/src/utils/modelLoader.js           (validation, normalisation)    *)
(*                                                                         *)
(* Numbers.  JavaScript numbers are modelled in fixed point:               *)
(*   lengths  in 1/LenScale  world units (0.01),                           *)
(*   angles   in 1/AngScale  radians     (0.0001),                         *)
(*   scales   as exact fractions <<num, den>>.                             *)
(* One React event handler, the re-render it causes and the effects that   *)
(* re-render runs are one atomic step: the browser delivers no other       *)
(* event in between.  An async handler is cut at its awaits.               *)
(* The reducer fields hotspotsVisible and showStats only drive rendering   *)
(* and are left out of the state.                                          *)
(***************************************************************************)
EXTENDS Integers, Sequences, FiniteSets, TLC

(***************************************************************************)
(* Bounds of the model                                                     *)
(***************************************************************************)
\* hotspots kept in the list at once
MaxHotspots == 2
\* values of the millisecond clock read by Date.now()
MaxClock == 2
\* camera-changing pointer events in one session (wheel, drag move, reset)
MaxCameraEvents == 1
\* calls of the camera operations in one sequence of rotate, pan, zoom,
\* reset and focus
MaxCameraCalls == 4
\* |rotationY| explored by direct calls of the camera operations, in radians
MaxAzimuth == 2

(***************************************************************************)
(* Program constants                                                       *)
(***************************************************************************)
LenScale == 100
AngScale == 10000
\* zoomCameraBy: Math.max(2, Math.min(50, ...))
MinDistance == 200
MaxDistance == 5000
\* rotateCameraBy: Math.PI/2 - 0.1 = 1.4708 rad
RotXLimit == 14708
\* validateFile: 50 * 1024 * 1024
MaxFileSize == 52428800
\* handleFileUpload: targetSize: 4
TargetSize == 400

Max(a, b) == IF a >= b THEN a ELSE b
Min(a, b) == IF a <= b THEN a ELSE b

(***************************************************************************)
(* Orbit camera: useThreeScene.js                                          *)
(***************************************************************************)
\* useState initial value, and resetCamera's defaultControls
DefaultControls ==
    [distance |-> 8 * LenScale, rotationX |-> 3000, rotationY |-> 5000,
     targetX |-> 0, targetY |-> 0, targetZ |-> 0]

\* rotationX clamp of rotateCameraBy
ClampRotX(v) == Max(-RotXLimit, Min(RotXLimit, v))

\* a mutant: the lower clamp is forgotten
ClampDistance_NoFloor(d) == Min(MaxDistance, d)

\* distance clamp of zoomCameraBy
ClampDistance(d) == Max(MinDistance, Min(MaxDistance, d))

\* deltaX, deltaY in pixels; 0.01 rad per pixel = 100 angle units
rotateCameraBy(prev, deltaX, deltaY) ==
    [prev EXCEPT !.rotationY = @ + deltaX * 100,
                 !.rotationX = ClampRotX(@ + deltaY * 100)]

\* panSpeed 0.01 world units per pixel = 1 length unit
\* a mutant: the vertical movement goes to the depth axis as well
panCameraBy_MovesZ(prev, deltaX, deltaY) ==
    [prev EXCEPT !.targetX = @ - deltaX, !.targetY = @ + deltaY,
                 !.targetZ = @ + deltaY]
panCameraBy(prev, deltaX, deltaY) ==
    [prev EXCEPT !.targetX = @ - deltaX,
                 !.targetY = @ + deltaY]

\* delta is 1 or -1; prev.distance * (1 + delta * 0.1), rounded down
zoomCameraBy(prev, delta) ==
    [prev EXCEPT !.distance = ClampDistance((@ * (10 + delta)) \div 10)]

\* a mutant: the second copy of the defaults has drifted from the first
resetCamera_OtherDefaults == [DefaultControls EXCEPT !.distance = 10 * LenScale]
resetCamera == DefaultControls


(***************************************************************************)
(* Vectors and fractions                                                   *)
(***************************************************************************)
VAdd(a, b) == <<a[1] + b[1], a[2] + b[2], a[3] + b[3]>>
VSub(a, b) == <<a[1] - b[1], a[2] - b[2], a[3] - b[3]>>
\* v times the fraction f = <<num, den>>, den > 0
VScale(v, f) == <<(v[1] * f[1]) \div f[2], (v[2] * f[1]) \div f[2],
                  (v[3] * f[1]) \div f[2]>>
Origin == <<0, 0, 0>>

RECURSIVE Gcd(_, _)
Gcd(a, b) == IF b = 0 THEN a ELSE Gcd(b, a % b)
\* the fraction n/d in lowest terms
Frac(n, d) == <<n \div Gcd(n, d), d \div Gcd(n, d)>>

(***************************************************************************)
(* Model normalisation: modelLoader.js                                     *)
(* An Object3D root is [position, scale, geom]: geom is the bounding box   *)
(* of the subtree's vertices in the root's local frame, or EmptyGeom for   *)
(* a subtree without vertices.  The root carries no rotation.              *)
(***************************************************************************)
EmptyGeom == [min |-> <<1, 1, 1>>, max |-> <<0, 0, 0>>]
IsEmptyBox(b) == b.max[1] < b.min[1] \/ b.max[2] < b.min[2] \/ b.max[3] < b.min[3]

\* THREE.Box3().setFromObject(model): the world-space box of the subtree
setFromObject(model) ==
    IF IsEmptyBox(model.geom) THEN EmptyGeom
    ELSE [min |-> VAdd(model.position, VScale(model.geom.min, model.scale)),
          max |-> VAdd(model.position, VScale(model.geom.max, model.scale))]

\* Box3.getCenter and Box3.getSize give (0,0,0) for an empty box
getCenter(box) ==
    IF IsEmptyBox(box) THEN Origin
    ELSE <<(box.min[1] + box.max[1]) \div 2, (box.min[2] + box.max[2]) \div 2,
           (box.min[3] + box.max[3]) \div 2>>
getSize(box) == IF IsEmptyBox(box) THEN Origin ELSE VSub(box.max, box.min)

getModelBounds(model) ==
    LET box == setFromObject(model)
        size == getSize(box)
    IN  [center |-> getCenter(box), size |-> size, boundingBox |-> box,
         maxDimension |-> Max(size[1], Max(size[2], size[3]))]

centerModel(model) ==
    [model EXCEPT !.position = VSub(@, getModelBounds(model).center)]

\* a mutant: the scale is set, not multiplied
scaleModelToSize_SetsScale(model, targetSize) ==
    LET bounds == getModelBounds(model)
    IN  IF bounds.maxDimension > 0
        THEN [model EXCEPT !.scale = Frac(targetSize, bounds.maxDimension)]
        ELSE model
scaleModelToSize(model, targetSize) ==
    LET bounds == getModelBounds(model)
    IN  IF bounds.maxDimension > 0
        THEN [model EXCEPT !.scale =
                 Frac(@[1] * targetSize, @[2] * bounds.maxDimension)]
        ELSE model

\* options {center: true, scale: true, targetSize}: fixModelIssues and
\* enableShadows touch materials and normals only
prepareModel(model, targetSize) ==
    scaleModelToSize(centerModel(model), targetSize)

\* focusOnModel: newControls from the cameraControls its closure captured
focusOnModel(model, controls) ==
    LET box == setFromObject(model)
        center == getCenter(box)
        size == getSize(box)
        maxDim == Max(size[1], Max(size[2], size[3]))
    IN  [controls EXCEPT !.targetX = center[1], !.targetY = center[2],
                         !.targetZ = center[3],
                         !.distance = (maxDim * 5) \div 2]

(***************************************************************************)
(* File validation: modelLoader.js                                         *)
(* A file name is a sequence of one-character strings.                     *)
(***************************************************************************)
LowerChar(c) ==
    CASE c = "G" -> "g" [] c = "L" -> "l" [] c = "B" -> "b"
      [] c = "M" -> "m" [] c = "T" -> "t" [] c = "F" -> "f"
      [] OTHER -> c
toLowerCase(s) == [i \in 1..Len(s) |-> LowerChar(s[i])]
endsWith(s, suffix) ==
    /\ Len(s) >= Len(suffix)
    /\ SubSeq(s, Len(s) - Len(suffix) + 1, Len(s)) = suffix

supportedFormats == {<<".", "g", "l", "b">>, <<".", "g", "l", "t", "f">>}

ErrNone == ""
ErrFormat == "Unsupported file format. Please use: .glb, .gltf"
ErrSize == "File too large. Maximum size is 50MB."
ErrRead == "Failed to read file"
ErrParse == "Failed to parse GLB file"

\* a mutant: the size is not looked at
validateFile_NoSizeCheck(file) ==
    LET fileName == toLowerCase(file.name)
    IN  IF \E format \in supportedFormats : endsWith(fileName, format)
        THEN ErrNone ELSE ErrFormat
\* the message validateFile throws, or ErrNone when it returns true
validateFile(file) ==
    LET fileName == toLowerCase(file.name)
        isValidFormat == \E format \in supportedFormats : endsWith(fileName, format)
    IN  IF ~isValidFormat THEN ErrFormat
        ELSE IF file.size > MaxFileSize THEN ErrSize
        ELSE ErrNone

(***************************************************************************)
(* Editor state: SwiftXR3DEditor.js                                        *)
(***************************************************************************)
\* null values of the reducer state
NoModel == 0
NoSelection == 0
NoButton == -1

\* String.prototype.trim on a sequence of characters
RECURSIVE TrimLeft(_)
TrimLeft(s) == IF s # <<>> /\ Head(s) = " " THEN TrimLeft(Tail(s)) ELSE s
RECURSIVE TrimRight(_)
TrimRight(s) ==
    IF s # <<>> /\ s[Len(s)] = " " THEN TrimRight(SubSeq(s, 1, Len(s) - 1)) ELSE s
\* a mutant: the label is taken as typed
Trim_AsTyped(s) == s
Trim(s) == TrimRight(TrimLeft(s))

initialMouseState ==
    [isDown |-> FALSE, lastX |-> 0, lastY |-> 0, button |-> NoButton]

initialState ==
    [isModelLoaded |-> FALSE, isLoading |-> FALSE, error |-> ErrNone,
     currentModel |-> NoModel, hotspots |-> <<>>, isAddingHotspot |-> FALSE,
     selectedHotspotId |-> NoSelection, newHotspotLabel |-> <<>>,
     mouseState |-> initialMouseState]

\* editorReducer, one operator per action type
\* a mutant: the message of an earlier failure stays up
SetLoading_KeepsError(s) == [s EXCEPT !.isLoading = TRUE]
SetLoading(s) == [s EXCEPT !.isLoading = TRUE, !.error = ErrNone]

\* a mutant: an error leaves the loading flag up
SetError_KeepsLoading(s, payload) == [s EXCEPT !.error = payload]
\* a mutant: an error also drops the model, as a fresh mount would
SetError_DropsModel(s, payload) ==
    [s EXCEPT !.error = payload, !.isLoading = FALSE,
              !.isModelLoaded = FALSE, !.currentModel = NoModel]
SetError(s, payload) == [s EXCEPT !.error = payload, !.isLoading = FALSE]

\* a mutant: the hotspots of the replaced model are kept
SetModelLoaded_KeepsHotspots(s, payload) ==
    [s EXCEPT !.isModelLoaded = TRUE, !.isLoading = FALSE,
              !.currentModel = payload, !.error = ErrNone]
SetModelLoaded(s, payload) ==
    [s EXCEPT !.isModelLoaded = TRUE, !.isLoading = FALSE,
              !.currentModel = payload, !.hotspots = <<>>,
              !.selectedHotspotId = NoSelection, !.error = ErrNone]

\* a mutant: the label of the placed hotspot stays in the input
AddHotspot_KeepsLabel(s, payload) ==
    [s EXCEPT !.hotspots = Append(@, payload),
              !.selectedHotspotId = payload.id, !.isAddingHotspot = FALSE]
\* a mutant: the editor stays armed, with its label
AddHotspot_StaysArmed(s, payload) ==
    [s EXCEPT !.hotspots = Append(@, payload),
              !.selectedHotspotId = payload.id]
AddHotspot(s, payload) ==
    [s EXCEPT !.hotspots = Append(@, payload),
              !.selectedHotspotId = payload.id,
              !.newHotspotLabel = <<>>, !.isAddingHotspot = FALSE]

\* a mutant: the selection is not looked at
DeleteHotspot_KeepsSelection(s, payload) ==
    LET Keep(h) == h.id # payload
    IN  [s EXCEPT !.hotspots = SelectSeq(@, Keep)]
DeleteHotspot(s, payload) ==
    LET Keep(h) == h.id # payload
    IN  [s EXCEPT !.hotspots = SelectSeq(@, Keep),
                  !.selectedHotspotId = IF @ = payload THEN NoSelection ELSE @]

SelectHotspot(s, payload) == [s EXCEPT !.selectedHotspotId = payload]

SetHotspotLabel(s, payload) == [s EXCEPT !.newHotspotLabel = payload]

\* a mutant: the label survives the toggle in both directions
ToggleAddingHotspot_KeepsLabel(s) ==
    [s EXCEPT !.isAddingHotspot = ~s.isAddingHotspot]
ToggleAddingHotspot(s) ==
    [s EXCEPT !.isAddingHotspot = ~s.isAddingHotspot,
              !.newHotspotLabel = IF ~s.isAddingHotspot THEN @ ELSE <<>>]

\* a mutant: only the list is emptied
ClearAllHotspots_KeepsSelection(s) == [s EXCEPT !.hotspots = <<>>]
ClearAllHotspots(s) ==
    [s EXCEPT !.hotspots = <<>>, !.selectedHotspotId = NoSelection]

SetMouseState(s, payload) == [s EXCEPT !.mouseState = payload]

(***************************************************************************)
(* Inputs                                                                  *)
(***************************************************************************)
\* scenes a decoder can produce (lengths in 0.01 units)
OffsetScene ==
    [position |-> Origin, scale |-> <<1, 1>>,
     geom |-> [min |-> <<100, 0, 0>>, max |-> <<300, 200, 200>>]]
PointScene ==
    [position |-> Origin, scale |-> <<1, 1>>,
     geom |-> [min |-> <<100, 0, 0>>, max |-> <<100, 0, 0>>]]
\* gltf.scene.clone() for the bytes of a well-formed file
gltfScene(bytes) ==
    IF bytes = "offset" THEN OffsetScene ELSE PointScene
\* whether gltfLoader.parse calls its onLoad (TRUE) or its onError callback
Decodes(bytes) == bytes # "corrupt"

NameGlb == <<"m", ".", "g", "l", "b">>
NameGlbUpper == <<"M", ".", "G", "L", "B">>
NameGltf == <<"m", ".", "g", "l", "t", "f">>
NameObj == <<"m", ".", "o", "b", "j">>
NameNoDot == <<"g", "l", "b">>

NoFile == [name |-> <<>>, size |-> 0, bytes |-> "corrupt"]
\* currentModel: null has no transform and no geometry
NoObject == [position |-> Origin, scale |-> <<1, 1>>, geom |-> EmptyGeom]

\* files offered to the file input in an editing session
SessionFiles ==
    { [name |-> NameGlbUpper, size |-> MaxFileSize, bytes |-> "offset"],
      [name |-> NameGltf, size |-> 1024, bytes |-> "point"],
      [name |-> NameGlb, size |-> 1024, bytes |-> "corrupt"],
      [name |-> NameObj, size |-> 1024, bytes |-> "offset"] }

\* canvas coordinates of pointer-down and of pointer-move events
DownPoints == {<<40, 30>>}
MovePoints == {<<40, 30>>, <<80, 10>>}
\* event.button: primary and secondary
Buttons == {0, 2}
LabelInputs == {<<>>, <<" ">>, <<" ", "a">>}
\* what raycaster.intersectObject returns first: no hit, or a world point
Miss == <<>>
RayResults == {Miss, <<<<200, 100, 300>>>>}

(***************************************************************************)
(* State                                                                   *)
(***************************************************************************)
VARIABLES
    state,           \* the useReducer state of the editor
    cameraControls,  \* the useState camera state of useThreeScene
    sceneModels,     \* models (userData.isModel) among sceneRef.current.children
    model3d,         \* position, scale and geometry of the last prepared model
    placementModel,  \* what getCurrentModel gives the handleHotspotPlacement
                     \* that the registered handleMouseDown calls
    pending,         \* the imports awaited by handleFileUpload, with their closures
    now,             \* the last value Date.now() returned
    camEvents,       \* camera-changing events so far
    last             \* the handler that ran last, with its argument

vars ==
    <<state, cameraControls, sceneModels, model3d, placementModel, pending, now,
      camEvents, last>>

\* what ran: the operation or its outcome, the hotspot id or file it was
\* given (for a ray, the model it was cast against), the number of hotspots
\* (for a ray, of intersections; for the toggle, of typed characters) it
\* found, the target size it was given,
\* whether it cast a ray
Ran(op) ==
    [op |-> op, id |-> 0, file |-> NoFile, n |-> 0, size |-> 0, ray |-> FALSE]

\* initializeScene: a new THREE.Scene with lights, grid and ground, no model
initializeScene == {}

Init ==
    /\ state = initialState
    /\ cameraControls = DefaultControls
    /\ sceneModels = initializeScene
    /\ model3d = NoObject
    /\ placementModel = NoModel
    /\ pending = {}
    /\ now = 1
    /\ camEvents = 0
    /\ last = Ran("mount")

(***************************************************************************)
(* The callbacks a render leaves registered                                *)
(***************************************************************************)
\* getCurrentModel: state.currentModel || hookCurrentModel; the hook returns
\* no currentModel, so the second operand is undefined
getCurrentModel(s) == s.currentModel

\* the dependency array of handleMouseDown
MouseDownDeps(s) == <<s.isAddingHotspot, s.isModelLoaded, s.newHotspotLabel>>

\* handleMouseDown is made anew only in a render that changes one of its
\* dependencies, and handleHotspotPlacement is not among them: the handler on
\* the canvas calls the handleHotspotPlacement of the render it was made in,
\* whose getCurrentModel reads the state of that render.  Handlers that
\* dispatch none of these three fields leave the registered handler alone.
Rerender ==
    placementModel' =
        IF MouseDownDeps(state') # MouseDownDeps(state)
        THEN getCurrentModel(state') ELSE placementModel

(***************************************************************************)
(* Import: handleFileUpload, cut at its await of loadGLB(file)             *)
(***************************************************************************)
\* The object gltf.scene.clone() creates is named by an identity no live
\* object has: not the current model's and not that of a pending import.
ModelIds == {1, 2, 3}
FreshModels ==
    {m \in ModelIds : m # state.currentModel /\ \A i \in pending : i.model # m}
NewModel == CHOOSE m \in FreshModels : \A k \in FreshModels : m <= k

\* a mutant: the input stays enabled during an import
FileInputDisabled_Never == FALSE
\* <input type="file" disabled={state.isLoading}>
FileInputDisabled == state.isLoading

\* The change event of the file input.  validateFile runs inside the call of
\* loadGLB; when it throws, the catch block runs as a microtask of the same
\* event, so SET_LOADING and SET_ERROR are one step.  Otherwise loadGLB
\* starts the FileReader and the handler waits for its promise, holding the
\* addModelToScene (and so the cameraControls) of the render it was
\* created in.
handleFileUpload(file) ==
    /\ ~FileInputDisabled
    /\ LET msg == validateFile(file)
       IN  IF msg # ErrNone
           THEN /\ state' = SetError(SetLoading(state), msg)
                /\ UNCHANGED pending
           ELSE /\ FreshModels # {}
                /\ state' = SetLoading(state)
                /\ pending' = pending \cup
                      {[file |-> file, controls |-> cameraControls,
                        model |-> NewModel]}
    /\ last' = [Ran(IF validateFile(file) # ErrNone THEN "importFailed"
                     ELSE "importStarted") EXCEPT !.file = file]
    /\ UNCHANGED <<cameraControls, sceneModels, model3d, placementModel, now, camEvents>>

\* loadGLB rejects: reader.onerror (any file), or the decoder's onError
\* callback (bytes that do not decode); then the catch block: SET_ERROR
LoadRejected(i, msg) ==
    /\ msg = ErrParse => ~Decodes(i.file.bytes)
    /\ state' = SetError(state, msg)
    /\ pending' = pending \ {i}
    /\ last' = [Ran("importFailed") EXCEPT !.file = i.file]
    /\ UNCHANGED <<cameraControls, sceneModels, model3d, placementModel, now, camEvents>>

\* addModelToScene on the scene's model children: remove the old, add the new
addModelToScene(children, model) ==
    LET existingModels == children
    IN  (children \ existingModels) \cup {model}

\* The scene effect has initializeScene among its dependencies, and
\* initializeScene has cameraControls among its own: after every render
\* that follows a setCameraControls the effect runs again and sceneRef
\* holds a new scene.
RerunSceneEffect(children) == initializeScene

\* loadGLB resolves (reader.onload, then the decoder's onLoad callback);
\* the handler goes on with prepareModel, addModelToScene
\* (which focuses the camera with the captured cameraControls) and
\* SET_MODEL_LOADED.  setCameraControls makes initializeScene a new callback,
\* so the scene effect runs again after the render and replaces the scene.
LoadResolved(i) ==
    /\ Decodes(i.file.bytes)
    /\ LET preparedModel == prepareModel(gltfScene(i.file.bytes), TargetSize)
       IN  /\ cameraControls' = focusOnModel(preparedModel, i.controls)
           /\ sceneModels' =
                 RerunSceneEffect(addModelToScene(sceneModels, i.model))
           /\ model3d' = preparedModel
           /\ state' = SetModelLoaded(state, i.model)
    /\ Rerender
    /\ pending' = pending \ {i}
    /\ last' = [Ran("importSucceeded") EXCEPT !.n = Len(state.hotspots)]
    /\ UNCHANGED <<now, camEvents>>

\* the x button of the error message: dispatch SET_ERROR with ''
DismissError ==
    /\ state.error # ErrNone
    /\ state' = SetError(state, ErrNone)
    /\ last' = Ran("dismissError")
    /\ UNCHANGED <<cameraControls, sceneModels, model3d, placementModel, pending,
                   now, camEvents>>

(***************************************************************************)
(* Pointer handlers                                                        *)
(***************************************************************************)
\* whether handleMouseDown takes its hotspot-placement branch
PlacementClick(s) ==
    s.isAddingHotspot /\ s.isModelLoaded /\ Trim(s.newHotspotLabel) # <<>>

\* whether handleHotspotPlacement reaches raycaster.intersectObject
RunsRaycast(s, currentModel) ==
    currentModel # NoModel /\ Trim(s.newHotspotLabel) # <<>>

\* a mutant: a click that hits nothing leaves placement
handleHotspotPlacement_MissDisarms(s, currentModel, screenX, screenY, intersects, t) ==
    IF ~RunsRaycast(s, currentModel) THEN s
    ELSE IF Len(intersects) > 0
         THEN AddHotspot(s, [id |-> t, label |-> Trim(s.newHotspotLabel),
                              position |-> intersects[1],
                              screenPosition |-> <<screenX, screenY>>,
                              createdAt |-> t])
         ELSE ToggleAddingHotspot(s)
\* handleHotspotPlacement(screenX, screenY); currentModel is what its
\* getCurrentModel returns, intersects is the raycast result and t is what
\* Date.now() returns
handleHotspotPlacement(s, currentModel, screenX, screenY, intersects, t) ==
    IF ~RunsRaycast(s, currentModel) THEN s
    ELSE IF Len(intersects) > 0
         THEN AddHotspot(s, [id |-> t, label |-> Trim(s.newHotspotLabel),
                              position |-> intersects[1],
                              screenPosition |-> <<screenX, screenY>>,
                              createdAt |-> t])
         ELSE s

\* the state handleMouseDown leaves
MouseDownResult(s, currentModel, x, y, button, intersects, t) ==
    IF PlacementClick(s)
    THEN handleHotspotPlacement(s, currentModel, x, y, intersects, t)
    ELSE IF s.isModelLoaded /\ ~s.isAddingHotspot
         THEN SetMouseState(s, [isDown |-> TRUE, lastX |-> x, lastY |-> y,
                                button |-> button])
         ELSE s

\* a pointer-down on the canvas; the clock is read when a hotspot is made
handleMouseDown(x, y, button, intersects, t) ==
    /\ state' = MouseDownResult(state, placementModel, x, y, button, intersects, t)
    /\ Len(state'.hotspots) <= MaxHotspots
    /\ now' = IF Len(state'.hotspots) > Len(state.hotspots) THEN t ELSE now
    /\ LET cast == PlacementClick(state) /\ RunsRaycast(state, placementModel)
       IN  last' = [Ran("handleMouseDown") EXCEPT
                      !.ray = cast,
                      !.id = IF cast THEN placementModel ELSE 0,
                      !.n = IF cast THEN Len(intersects) ELSE 0]
    /\ Rerender
    /\ UNCHANGED <<cameraControls, sceneModels, model3d, pending, camEvents>>

\* a mutant: the buttons are taken for each other
MouseMoveControls_Swapped(s, controls, x, y) ==
    LET deltaX == x - s.mouseState.lastX
        deltaY == y - s.mouseState.lastY
    IN  IF s.mouseState.button = 2 THEN rotateCameraBy(controls, deltaX, deltaY)
        ELSE IF s.mouseState.button = 0 THEN panCameraBy(controls, deltaX, deltaY)
        ELSE controls
\* the cameraControls handleMouseMove leaves
MouseMoveControls(s, controls, x, y) ==
    LET deltaX == x - s.mouseState.lastX
        deltaY == y - s.mouseState.lastY
    IN  IF s.mouseState.button = 0 THEN rotateCameraBy(controls, deltaX, deltaY)
        ELSE IF s.mouseState.button = 2 THEN panCameraBy(controls, deltaX, deltaY)
        ELSE controls

\* whether handleMouseMove calls setCameraControls
MouseMoveSetsControls(s) ==
    s.mouseState.isDown /\ s.mouseState.button \in {0, 2}

handleMouseMove(x, y) ==
    /\ MouseMoveSetsControls(state) => camEvents < MaxCameraEvents
    /\ IF ~state.mouseState.isDown
       THEN UNCHANGED <<state, cameraControls, sceneModels, camEvents>>
       ELSE /\ cameraControls' = MouseMoveControls(state, cameraControls, x, y)
            /\ state' = SetMouseState(state,
                  [state.mouseState EXCEPT !.lastX = x, !.lastY = y])
            /\ IF MouseMoveSetsControls(state)
               THEN /\ sceneModels' = RerunSceneEffect(sceneModels)
                    /\ camEvents' = camEvents + 1
               ELSE UNCHANGED <<sceneModels, camEvents>>
    /\ last' = Ran("handleMouseMove")
    /\ UNCHANGED <<model3d, placementModel, pending, now>>

\* registered on the canvas and on the document
handleMouseUp ==
    /\ state' = SetMouseState(state,
          [state.mouseState EXCEPT !.isDown = FALSE, !.button = NoButton])
    /\ last' = Ran("handleMouseUp")
    /\ UNCHANGED <<cameraControls, sceneModels, model3d, placementModel, pending,
                   now, camEvents>>

\* whether handleWheel calls zoomCameraBy
\* a mutant: the wheel is dead during placement
WheelZooms_NotWhileArmed(s) == s.isModelLoaded /\ ~s.isAddingHotspot
WheelZooms(s) == s.isModelLoaded

handleWheel(deltaY) ==
    /\ WheelZooms(state) => camEvents < MaxCameraEvents
    /\ IF ~WheelZooms(state)
       THEN UNCHANGED <<cameraControls, sceneModels, camEvents>>
       ELSE /\ cameraControls' =
                  zoomCameraBy(cameraControls, IF deltaY > 0 THEN 1 ELSE -1)
            /\ sceneModels' = RerunSceneEffect(sceneModels)
            /\ camEvents' = camEvents + 1
    /\ last' = Ran("handleWheel")
    /\ UNCHANGED <<state, model3d, placementModel, pending, now>>

(***************************************************************************)
(* Toolbar and hotspot list; each control exists only while its JSX        *)
(* condition holds                                                         *)
(***************************************************************************)
ClickResetView ==
    /\ state.isModelLoaded
    /\ camEvents < MaxCameraEvents
    /\ cameraControls' = resetCamera
    /\ sceneModels' = RerunSceneEffect(sceneModels)
    /\ camEvents' = camEvents + 1
    /\ last' = Ran("resetCamera")
    /\ UNCHANGED <<state, model3d, placementModel, pending, now>>

toggleHotspotMode ==
    /\ state.isModelLoaded
    /\ state' = ToggleAddingHotspot(state)
    /\ last' = [Ran("toggleHotspotMode") EXCEPT !.n = Len(state.newHotspotLabel)]
    /\ Rerender
    /\ UNCHANGED <<cameraControls, sceneModels, model3d, pending, now, camEvents>>

\* onChange of the label input
TypeLabel(text) ==
    /\ state.isModelLoaded /\ state.isAddingHotspot
    /\ state' = SetHotspotLabel(state, text)
    /\ last' = Ran("setHotspotLabel")
    /\ Rerender
    /\ UNCHANGED <<cameraControls, sceneModels, model3d, pending, now, camEvents>>

deleteHotspot(id) ==
    /\ state' = DeleteHotspot(state, id)
    /\ last' = [Ran("deleteHotspot") EXCEPT !.id = id, !.n = Len(state.hotspots)]
    /\ UNCHANGED <<cameraControls, sceneModels, model3d, placementModel, pending,
                   now, camEvents>>

selectHotspot(hotspot) ==
    /\ state' = SelectHotspot(state, hotspot.id)
    /\ last' = Ran("selectHotspot")
    /\ UNCHANGED <<cameraControls, sceneModels, model3d, placementModel, pending,
                   now, camEvents>>

clearAllHotspots ==
    /\ state.isModelLoaded /\ Len(state.hotspots) > 0
    /\ state' = ClearAllHotspots(state)
    /\ last' = Ran("clearAllHotspots")
    /\ UNCHANGED <<cameraControls, sceneModels, model3d, placementModel, pending,
                   now, camEvents>>

(***************************************************************************)
(* The editing session                                                     *)
(***************************************************************************)
\* the inputs of a pointer-down that the handler's branch reads
MouseDownInputs ==
    IF PlacementClick(state)
    THEN {<<0, r, t>> : r \in RayResults, t \in now..MaxClock}
    ELSE {<<b, Miss, now>> : b \in Buttons}

Next ==
    \/ \E file \in SessionFiles : handleFileUpload(file)
    \/ \E i \in pending, msg \in {ErrRead, ErrParse} : LoadRejected(i, msg)
    \/ \E i \in pending : LoadResolved(i)
    \/ DismissError
    \/ \E p \in DownPoints, in \in MouseDownInputs :
          handleMouseDown(p[1], p[2], in[1], in[2], in[3])
    \/ \E p \in MovePoints : handleMouseMove(p[1], p[2])
    \/ handleMouseUp
    \/ \E deltaY \in {-100, 100} : handleWheel(deltaY)
    \/ ClickResetView
    \/ toggleHotspotMode
    \/ \E text \in LabelInputs : TypeLabel(text)
    \/ \E id \in 1..MaxClock : deleteHotspot(id)
    \/ \E k \in 1..Len(state.hotspots) : selectHotspot(state.hotspots[k])
    \/ clearAllHotspots

Spec == Init /\ [][Next]_vars

(***************************************************************************)
(* The camera operations called directly, as useThreeScene exports them    *)
(***************************************************************************)
\* pointer deltas in pixels
Deltas == {-60, 60}

CallRotate(deltaX, deltaY) ==
    /\ cameraControls' = rotateCameraBy(cameraControls, deltaX, deltaY)
    /\ cameraControls'.rotationY <= MaxAzimuth * AngScale
    /\ cameraControls'.rotationY >= -(MaxAzimuth * AngScale)
    /\ sceneModels' = RerunSceneEffect(sceneModels)
    /\ last' = Ran("rotateCameraBy")
    /\ UNCHANGED <<state, model3d, placementModel, pending, now, camEvents>>

CallZoom(delta) ==
    /\ cameraControls' = zoomCameraBy(cameraControls, delta)
    /\ sceneModels' = RerunSceneEffect(sceneModels)
    /\ last' = Ran("zoomCameraBy")
    /\ UNCHANGED <<state, model3d, placementModel, pending, now, camEvents>>

NextOrbit ==
    \/ \E deltaX \in Deltas, deltaY \in Deltas : CallRotate(deltaX, deltaY)
    \/ \E delta \in {-1, 1} : CallZoom(delta)

SpecOrbit == Init /\ [][NextOrbit]_vars

(***************************************************************************)
(* C1.  Whatever sequence of rotateCameraBy and zoomCameraBy calls follows *)
(* the default camera state, the distance stays within [2, 50] and the     *)
(* elevation rotationX within [-(pi/2 - 0.1), pi/2 - 0.1].                 *)
(***************************************************************************)
C1_ClampsHold ==
    /\ 2 * LenScale <= cameraControls.distance
    /\ cameraControls.distance <= 50 * LenScale
    /\ -14708 <= cameraControls.rotationX
    /\ cameraControls.rotationX <= 14708

\* both clamps have cut a value off: the camera is as far and as high as allowed
C1_BothClampsReached ==
    /\ last.op \in {"rotateCameraBy", "zoomCameraBy"}
    /\ cameraControls.distance = MaxDistance
    /\ cameraControls.rotationX = RotXLimit

(***************************************************************************)
(* Imports alone, over a wider set of files                                *)
(***************************************************************************)
FileNames == {NameGlb, NameGlbUpper, NameGltf, NameObj, NameNoDot}
FileSizes == {1024, MaxFileSize, MaxFileSize + 1}
FileBytes == {"offset", "point", "corrupt"}
ImportFiles ==
    {[name |-> nm, size |-> sz, bytes |-> b] :
        nm \in FileNames, sz \in FileSizes, b \in FileBytes}

NextImport ==
    \/ \E file \in ImportFiles : handleFileUpload(file)
    \/ \E i \in pending, msg \in {ErrRead, ErrParse} : LoadRejected(i, msg)
    \/ \E i \in pending : LoadResolved(i)
    \/ DismissError

SpecImport == Init /\ [][NextImport]_vars

(***************************************************************************)
(* prepareModel alone, on the scenes a decoder can hand over               *)
(***************************************************************************)
Coordinates == {-100, 0, 100}
ScenePositions == {<<x, y, 0>> : x \in Coordinates, y \in Coordinates}
SceneScales == {<<1, 1>>, <<2, 1>>, <<1, 2>>}
SceneGeoms ==
    { [min |-> <<-100, -100, -100>>, max |-> <<100, 100, 100>>],
      [min |-> <<100, 0, 0>>, max |-> <<300, 200, 200>>],
      [min |-> <<0, 0, 0>>, max |-> <<400, 200, 0>>],
      [min |-> <<100, 0, 0>>, max |-> <<100, 0, 0>>],
      EmptyGeom }
DecodedScenes ==
    {[position |-> p, scale |-> sc, geom |-> g] :
        p \in ScenePositions, sc \in SceneScales, g \in SceneGeoms}
TargetSizes == {200, TargetSize}

\* loadGLB has resolved with some scene; nothing else has happened
InitNormalize ==
    /\ state = initialState
    /\ cameraControls = DefaultControls
    /\ sceneModels = initializeScene
    /\ model3d \in DecodedScenes
    /\ placementModel = NoModel
    /\ pending = {}
    /\ now = 1
    /\ camEvents = 0
    /\ last = Ran("loadGLB")

CallPrepareModel(targetSize) ==
    /\ last.op = "loadGLB"
    /\ model3d' = prepareModel(model3d, targetSize)
    /\ last' = [Ran("prepareModel") EXCEPT
                  !.n = getModelBounds(model3d).maxDimension,
                  !.size = targetSize]
    /\ UNCHANGED <<state, cameraControls, sceneModels, placementModel, pending,
                   now, camEvents>>

NextNormalize == \E targetSize \in TargetSizes : CallPrepareModel(targetSize)

SpecNormalize == InitNormalize /\ [][NextNormalize]_vars

(***************************************************************************)
(* C2.  After a successful import (SET_MODEL_LOADED) the hotspot list is   *)
(* empty and no hotspot is selected, whatever hotspots and selection       *)
(* existed before; the imported model is the current one.                  *)
(***************************************************************************)
C2_ImportClearsHotspots ==
    last.op = "importSucceeded" =>
        /\ state.hotspots = <<>>
        /\ state.selectedHotspotId = NoSelection
        /\ state.isModelLoaded
        /\ state.currentModel # NoModel

\* an import has replaced a model that carried two hotspots
C2_ImportOverTwoHotspots ==
    /\ last.op = "importSucceeded"
    /\ last.n = 2
    /\ state.hotspots = <<>>

(***************************************************************************)
(* C3.  After a successful import, from any prior state, isAddingHotspot   *)
(* is false, newHotspotLabel is empty and no drag is active.               *)
(***************************************************************************)
C3_ImportResetsMode ==
    last.op = "importSucceeded" =>
        /\ ~state.isAddingHotspot
        /\ state.newHotspotLabel = <<>>
        /\ ~state.mouseState.isDown

(***************************************************************************)
(* C4.  A pointer-down while hotspot placement is armed and the label is   *)
(* empty or only whitespace changes nothing: hotspots, selection, mode,    *)
(* label and drag state stay as they are, the camera too, and no ray is    *)
(* cast.                                                                   *)
(***************************************************************************)
C4_BlankLabelClickIsNoOp ==
    [][(/\ last'.op = "handleMouseDown"
        /\ state.isAddingHotspot
        /\ \A k \in 1..Len(state.newHotspotLabel) :
              state.newHotspotLabel[k] = " ")
       => (/\ state' = state
           /\ cameraControls' = cameraControls
           /\ ~last'.ray)]_vars

\* a pointer-down has been handled while armed with a label of one blank
C4_ClickedWithBlankLabel ==
    /\ last.op = "handleMouseDown"
    /\ state.isAddingHotspot
    /\ state.newHotspotLabel = <<" ">>
    /\ ~last.ray

(***************************************************************************)
(* C5.  Deleting the selected hotspot clears the selection; deleting any   *)
(* other id, present in the list or not, leaves selectedHotspotId as it    *)
(* was.                                                                    *)
(***************************************************************************)
C5_DeleteAdjustsSelection ==
    [][last'.op = "deleteHotspot" =>
          state'.selectedHotspotId =
              IF state.selectedHotspotId = last'.id THEN NoSelection
              ELSE state.selectedHotspotId]_vars

\* the selected one of two hotspots has been deleted
C5_DeletedTheSelected ==
    /\ last.op = "deleteHotspot"
    /\ last.n = 2
    /\ Len(state.hotspots) = 1
    /\ state.hotspots[1].id # last.id
    /\ state.selectedHotspotId = NoSelection

(***************************************************************************)
(* C6.  While an import is pending (isLoading), pointer events are         *)
(* rejected: no pointer-down starts a drag, no pointer-move or wheel       *)
(* changes the camera, no click creates a hotspot.                         *)
(***************************************************************************)
C6_LoadingRejectsPointer ==
    [][(/\ state.isLoading
        /\ last'.op \in {"handleMouseDown", "handleMouseMove", "handleWheel"})
       => (/\ cameraControls' = cameraControls
           /\ state'.hotspots = state.hotspots
           /\ state'.mouseState.isDown => state.mouseState.isDown)]_vars

C8_FailedImportKeepsModel ==
    [][last'.op = "importFailed" =>
          /\ state' = [state EXCEPT !.error = state'.error, !.isLoading = FALSE]
          /\ state'.error # ErrNone
          /\ sceneModels' = sceneModels
          /\ model3d' = model3d
          /\ cameraControls' = cameraControls]_vars

\* a decode has failed while a model with a selected hotspot was shown
C8_DecodeFailedOverModel ==
    /\ last.op = "importFailed"
    /\ state.error = ErrParse
    /\ state.isModelLoaded
    /\ state.currentModel # NoModel
    /\ Len(state.hotspots) = 2
    /\ state.selectedHotspotId # NoSelection

(***************************************************************************)
(* C9.  A file larger than 50 MB, or one whose name does not end in .glb   *)
(* or .gltf (whatever the case of the letters), fails with an error before *)
(* any read or decode: it is never among the awaited imports.              *)
(***************************************************************************)
C9_InvalidFileNeverRead ==
    LET Rejected(f) ==
            \/ f.size > 50 * 1024 * 1024
            \/ ~ \E ext \in {<<".", "g", "l", "b">>, <<".", "g", "l", "t", "f">>} :
                    endsWith(toLowerCase(f.name), ext)
    IN  /\ \A i \in pending : ~Rejected(i.file)
        /\ (last.op \in {"importStarted", "importFailed"} /\ Rejected(last.file))
              => /\ last.op = "importFailed"
                 /\ state.error \in {ErrFormat, ErrSize}
                 /\ ~state.isLoading

\* a file of one byte more than 50 MB with a good name has been refused
C9_OversizeRefused ==
    /\ last.op = "importFailed"
    /\ last.file.name = NameGltf
    /\ last.file.size = 50 * 1024 * 1024 + 1
    /\ state.error = ErrSize
    /\ pending = {}

(***************************************************************************)
(* C10.  For every model whose extent is not zero, the center of the       *)
(* world bounding box is the origin after prepareModel.                    *)
(***************************************************************************)
C10_PreparedModelCentered ==
    (last.op = "prepareModel" /\ last.n > 0) =>
        getCenter(setFromObject(model3d)) = Origin

(***************************************************************************)
(* All five camera operations of useThreeScene, called in any order        *)
(***************************************************************************)
\* models as handleFileUpload hands them to addModelToScene
FocusModels ==
    {prepareModel(OffsetScene, TargetSize), prepareModel(PointScene, TargetSize)}

\* one call from the component of the current render
CameraCall(op, controls) ==
    /\ camEvents < MaxCameraCalls
    /\ cameraControls' = controls
    /\ sceneModels' = RerunSceneEffect(sceneModels)
    /\ camEvents' = camEvents + 1
    /\ last' = Ran(op)
    /\ UNCHANGED <<state, model3d, placementModel, pending, now>>

NextCamera ==
    \/ \E deltaX \in Deltas, deltaY \in Deltas :
          CameraCall("rotateCameraBy",
                     rotateCameraBy(cameraControls, deltaX, deltaY))
    \/ \E deltaX \in Deltas, deltaY \in Deltas :
          CameraCall("panCameraBy", panCameraBy(cameraControls, deltaX, deltaY))
    \/ \E delta \in {-1, 1} :
          CameraCall("zoomCameraBy", zoomCameraBy(cameraControls, delta))
    \/ CameraCall("resetCamera", resetCamera)
    \/ \E model \in FocusModels :
          CameraCall("focusOnModel", focusOnModel(model, cameraControls))

SpecCamera == Init /\ [][NextCamera]_vars

(***************************************************************************)
(* Imports with a file reader and a decoder that answer in the end         *)
(***************************************************************************)
ImportSettles ==
    \E i \in pending :
        \/ \E msg \in {ErrRead, ErrParse} : LoadRejected(i, msg)
        \/ LoadResolved(i)

SpecImportLive == SpecImport /\ WF_vars(ImportSettles)

(***************************************************************************)
(* C11.  prepareModel with target size S leaves a model of non-zero extent *)
(* with a largest bounding-box dimension of S, by multiplying its uniform  *)
(* scale by S / maxExtent; a model whose largest extent is zero keeps its  *)
(* scale.                                                                  *)
(***************************************************************************)
C11_ScaledToTargetSize ==
    [][(last.op = "loadGLB" /\ last'.op = "prepareModel") =>
          LET before == getModelBounds(model3d)
              after == getModelBounds(model3d')
          IN  IF before.maxDimension > 0
              THEN /\ after.maxDimension = last'.size
                   /\ model3d'.scale[1] * model3d.scale[2] * before.maxDimension
                        = model3d.scale[1] * model3d'.scale[2] * last'.size
                   /\ model3d'.geom = model3d.geom
              ELSE /\ model3d'.scale = model3d.scale
                   /\ after.maxDimension = 0]_vars

\* a model that came scaled by 2 and 8 units wide has been brought to size 2
C11_ShrunkToTwo ==
    /\ last.op = "prepareModel"
    /\ last.n = 800
    /\ last.size = 200
    /\ model3d.scale = <<1, 2>>
    /\ getModelBounds(model3d).maxDimension = 200

(***************************************************************************)
(* C12.  After resetCamera the camera state is the one default (distance   *)
(* 8, rotationX 0.3, rotationY 0.5, target at the origin), whatever        *)
(* rotate, pan, zoom and focus calls came before.                          *)
(***************************************************************************)
C12_ResetGivesDefaultPose ==
    last.op = "resetCamera" =>
        cameraControls = [distance |-> 8 * LenScale, rotationX |-> 3000,
                          rotationY |-> 5000, targetX |-> 0, targetY |-> 0,
                          targetZ |-> 0]

\* a reset has followed three other calls
C12_ResetAfterThreeCalls ==
    /\ last.op = "resetCamera"
    /\ camEvents = 4

(***************************************************************************)
(* C13.  No two hotspots in the list have the same id, whatever the        *)
(* timing of their creation.                                               *)
(***************************************************************************)
C13_HotspotIdsUnique ==
    \A j \in 1..Len(state.hotspots), k \in 1..Len(state.hotspots) :
        j # k => state.hotspots[j].id # state.hotspots[k].id

(***************************************************************************)
(* C14.  A camera drag (mouseState.isDown) and armed hotspot placement     *)
(* (isAddingHotspot) are never both on.                                    *)
(***************************************************************************)
C14_DragAndArmedExclusive ==
    ~(state.mouseState.isDown /\ state.isAddingHotspot)

(***************************************************************************)
(* C15.  If the file reader and the decoder answer in the end, every       *)
(* import that started leaves the loading condition, and after a failed    *)
(* import a new import, of a valid file whose bytes decode, can be started.*)
(***************************************************************************)
C15_ImportsSettleAndRetry ==
    /\ state.isLoading ~> ~state.isLoading
    /\ [](last.op = "importFailed" =>
            ENABLED (\E file \in ImportFiles :
                        /\ validateFile(file) = ErrNone
                        /\ Decodes(file.bytes)
                        /\ handleFileUpload(file)))

\* an import has left the loading condition by a read error
C15_ReadFailedAndIdle ==
    /\ last.op = "importFailed"
    /\ state.error = ErrRead
    /\ ~state.isLoading
    /\ pending = {}

(***************************************************************************)
(* C16.  In every reachable state, also after an import has focused the    *)
(* camera on a model (of zero extent too) and after a reset, the distance  *)
(* is positive and within [2, 50].                                         *)
(***************************************************************************)
C16_DistanceWithinLimits ==
    /\ cameraControls.distance > 0
    /\ 2 * LenScale <= cameraControls.distance
    /\ cameraControls.distance <= 50 * LenScale

(***************************************************************************)
(* C17.  Armed with a non-blank label, a click whose ray hits the model    *)
(* appends exactly one hotspot with the hit's world point, the click's     *)
(* screen coordinates and the trimmed label, empties the pending label     *)
(* and leaves placement.                                                   *)
(***************************************************************************)
C17_HitCreatesHotspot ==
    [][(/\ last'.op = "handleMouseDown"
        /\ state.isAddingHotspot
        /\ \E k \in 1..Len(state.newHotspotLabel) : state.newHotspotLabel[k] # " "
        /\ last'.n > 0)
       => (/\ Len(state'.hotspots) = Len(state.hotspots) + 1
           /\ SubSeq(state'.hotspots, 1, Len(state.hotspots)) = state.hotspots
           /\ LET h == state'.hotspots[Len(state'.hotspots)]
              IN  /\ <<h.position>> \in RayResults
                  /\ h.screenPosition \in DownPoints
                  /\ h.label = Trim(state.newHotspotLabel)
                  /\ h.label # <<>>
           /\ state'.newHotspotLabel = <<>>
           /\ ~state'.isAddingHotspot)]_vars

\* a second hotspot, labelled "a" from the typed " a", has been placed
C17_PlacedSecondHotspot ==
    /\ last.op = "handleMouseDown"
    /\ last.n > 0
    /\ Len(state.hotspots) = 2
    /\ state.hotspots[2].label = <<"a">>
    /\ state.hotspots[2].position = <<200, 100, 300>>
    /\ ~state.isAddingHotspot

(***************************************************************************)
(* C18.  Armed with a non-blank label, a click whose ray misses the model  *)
(* changes nothing: the editor stays armed with the same label, and the    *)
(* hotspots, the selection, the drag state and the camera are as before.   *)
(***************************************************************************)
C18_MissChangesNothing ==
    [][(/\ last'.op = "handleMouseDown"
        /\ state.isAddingHotspot
        /\ \E k \in 1..Len(state.newHotspotLabel) : state.newHotspotLabel[k] # " "
        /\ last'.ray
        /\ last'.n = 0)
       => (/\ state' = state
           /\ cameraControls' = cameraControls
           /\ placementModel' = placementModel)]_vars

\* a ray has been cast and has hit nothing; the editor is still armed
C18_MissedWhileArmed ==
    /\ last.op = "handleMouseDown"
    /\ last.ray
    /\ last.n = 0
    /\ state.isAddingHotspot
    /\ state.newHotspotLabel = <<" ", "a">>

(***************************************************************************)
(* C19.  Every ray of a placement click is cast against the model that is  *)
(* current at the click, never against one that a successful import has    *)
(* replaced.                                                               *)
(***************************************************************************)
C19_RayAgainstCurrentModel ==
    (last.op = "handleMouseDown" /\ last.ray) => last.id = state.currentModel

(***************************************************************************)
(* C20.  A pointer-move during a drag rotates the camera by the pointer's  *)
(* movement when the drag began with button 0 and pans it when the drag    *)
(* began with button 2; without a drag it changes no camera parameter; a   *)
(* pointer-up ends the drag.                                               *)
(***************************************************************************)
C20_DragRouting ==
    [][/\ last'.op = "handleMouseMove" =>
            LET deltaX == state'.mouseState.lastX - state.mouseState.lastX
                deltaY == state'.mouseState.lastY - state.mouseState.lastY
            IN  cameraControls' =
                  IF ~state.mouseState.isDown THEN cameraControls
                  ELSE IF state.mouseState.button = 0
                       THEN rotateCameraBy(cameraControls, deltaX, deltaY)
                  ELSE IF state.mouseState.button = 2
                       THEN panCameraBy(cameraControls, deltaX, deltaY)
                  ELSE cameraControls
       /\ last'.op = "handleMouseUp" => ~state'.mouseState.isDown]_vars

\* a drag begun with the secondary button has moved the target to the left
C20_PannedWithSecondary ==
    /\ last.op = "handleMouseMove"
    /\ state.mouseState.isDown
    /\ state.mouseState.button = 2
    /\ state.mouseState.lastX = 80
    /\ cameraControls.targetX = -40
    /\ cameraControls.rotationY = 5000

(***************************************************************************)
(* C21.  As claimed: every wheel event changes the distance as             *)
(* zoomCameraBy does, in every mode and with or without a loaded model.    *)
(***************************************************************************)
C21_WheelAlwaysZooms ==
    [][last'.op = "handleWheel" =>
          \E f \in {9, 11} :
              cameraControls'.distance =
                  Max(2 * LenScale,
                      Min(50 * LenScale, (cameraControls.distance * f) \div 10))]_vars

(***************************************************************************)
(* C21, amended.  While a model is loaded, every wheel event changes the   *)
(* distance as zoomCameraBy does (times 1.1 or 0.9, clamped to [2, 50]),   *)
(* whether the editor is idle, dragging or armed, and changes no other     *)
(* camera parameter; while no model is loaded a wheel event changes        *)
(* nothing.                                                                *)
(***************************************************************************)
C21_WheelZoomsLoadedModel ==
    [][last'.op = "handleWheel" =>
          IF state.isModelLoaded
          THEN \E f \in {9, 11} :
                  cameraControls' =
                      [cameraControls EXCEPT !.distance =
                          Max(2 * LenScale,
                              Min(50 * LenScale, (@ * f) \div 10))]
          ELSE cameraControls' = cameraControls]_vars

\* the wheel has zoomed while the editor was armed
C21_ZoomedWhileArmed ==
    /\ last.op = "handleWheel"
    /\ state.isAddingHotspot
    /\ camEvents = 1
    /\ cameraControls.distance \in {900, 1100}

(***************************************************************************)
(* C22.  The toggle changes isAddingHotspot and, when it leaves placement, *)
(* empties the pending label; nothing else changes.                        *)
(***************************************************************************)
C22_ToggleClearsLabel ==
    [][last'.op = "toggleHotspotMode" =>
          /\ state' = [state EXCEPT
                          !.isAddingHotspot = ~state.isAddingHotspot,
                          !.newHotspotLabel =
                              IF state.isAddingHotspot THEN <<>> ELSE @]
          /\ cameraControls' = cameraControls
          /\ sceneModels' = sceneModels]_vars

\* placement has been left with two characters typed
C22_ToggledOffMidEntry ==
    /\ last.op = "toggleHotspotMode"
    /\ last.n = 2
    /\ ~state.isAddingHotspot
    /\ state.newHotspotLabel = <<>>

(***************************************************************************)
(* C23.  rotateCameraBy(dx, dy) takes dx times the sensitivity (0.01) off  *)
(* the azimuth rotationY and sets rotationX to the clamp of rotationX plus *)
(* dy times the sensitivity.                                               *)
(***************************************************************************)
C23_RotateDecreasesAzimuth ==
    [][\A deltaX \in Deltas, deltaY \in Deltas :
          CameraCall("rotateCameraBy",
                     rotateCameraBy(cameraControls, deltaX, deltaY))
          => /\ cameraControls'.rotationY =
                    cameraControls.rotationY - deltaX * 100
             /\ cameraControls'.rotationX =
                    Max(-14708, Min(14708,
                        cameraControls.rotationX + deltaY * 100))]_vars

(***************************************************************************)
(* C24.  panCameraBy moves the target in proportion to the distance: the   *)
(* same pointer delta at twice the distance moves it twice as far.         *)
(***************************************************************************)
C24_PanScalesWithDistance ==
    [][\A deltaX \in Deltas, deltaY \in Deltas :
          CameraCall("panCameraBy", panCameraBy(cameraControls, deltaX, deltaY))
          => LET far == [cameraControls EXCEPT !.distance = 2 * @]
                 moved == panCameraBy(far, deltaX, deltaY)
             IN  /\ moved.targetX - far.targetX =
                        2 * (cameraControls'.targetX - cameraControls.targetX)
                 /\ moved.targetY - far.targetY =
                        2 * (cameraControls'.targetY - cameraControls.targetY)]_vars

(***************************************************************************)
(* C25.  The focus that a successful import runs leaves rotationX and      *)
(* rotationY as they were right before it, whatever rotation happened     *)
(* while the import was pending.                                           *)
(***************************************************************************)
C25_FocusKeepsAngles ==
    [][last'.op = "importSucceeded" =>
          /\ cameraControls'.rotationX = cameraControls.rotationX
          /\ cameraControls'.rotationY = cameraControls.rotationY]_vars

(***************************************************************************)
(* C26.  selectedHotspotId is null or the id of a hotspot in the list.     *)
(***************************************************************************)
C26_SelectionIsInList ==
    \/ state.selectedHotspotId = NoSelection
    \/ \E k \in 1..Len(state.hotspots) :
          state.hotspots[k].id = state.selectedHotspotId

\* the first of two hotspots has been selected after the second was placed
C26_SelectedTheFirst ==
    /\ last.op = "selectHotspot"
    /\ Len(state.hotspots) = 2
    /\ state.hotspots[1].id # state.hotspots[2].id
    /\ state.selectedHotspotId = state.hotspots[1].id

(***************************************************************************)
(* C27.  Whenever isAddingHotspot is false the pending label is empty.     *)
(***************************************************************************)
C27_LabelEmptyWhenIdle ==
    ~state.isAddingHotspot => state.newHotspotLabel = <<>>

\* a placement has just used up the typed label
C27_IdleAfterPlacement ==
    /\ last.op = "handleMouseDown"
    /\ last.n > 0
    /\ Len(state.hotspots) = 1
    /\ ~state.isAddingHotspot
    /\ state.newHotspotLabel = <<>>

(***************************************************************************)
(* C28.  At most one import is awaited; an import starts only while        *)
(* isLoading is false; isLoading is true for as long as the import is      *)
(* awaited, and while it is, only the import's own success or failure      *)
(* clears it.                                                              *)
(***************************************************************************)
C28_LoadingSpansTheImport ==
    [][/\ Cardinality(pending') <= 1
       /\ pending' \ pending # {} => ~state.isLoading /\ pending = {}
       /\ pending' # {} => state'.isLoading
       /\ (state.isLoading /\ ~state'.isLoading) =>
             /\ last'.op \in {"importSucceeded", "importFailed"}
             /\ pending' = {}]_vars

\* a second import is awaited over a loaded model while another handler runs
C28_HandlerRanWhileLoading ==
    /\ pending # {}
    /\ state.isLoading
    /\ state.isModelLoaded
    /\ last.op = "toggleHotspotMode"

(***************************************************************************)
(* C29.  Once a model is loaded the scene holds exactly one model, the     *)
(* current one, also after rotate, pan, zoom and reset.                    *)
(***************************************************************************)
C29_SceneHoldsCurrentModel ==
    state.isModelLoaded => sceneModels = {state.currentModel}

(***************************************************************************)
(* C30.  A rotating pointer-move leaves distance and target as they are,   *)
(* a panning one leaves distance, both angles and targetZ, a wheel event   *)
(* leaves both angles and the target; none of them changes the hotspots,   *)
(* the selection or isAddingHotspot.                                       *)
(***************************************************************************)
C30_CameraOperationsFrame ==
    [][LET c == cameraControls
           d == cameraControls'
           dragging == last'.op = "handleMouseMove" /\ state.mouseState.isDown
       IN  /\ (dragging /\ state.mouseState.button = 0) =>
                 /\ d.distance = c.distance
                 /\ <<d.targetX, d.targetY, d.targetZ>> =
                       <<c.targetX, c.targetY, c.targetZ>>
           /\ (dragging /\ state.mouseState.button = 2) =>
                 /\ d.distance = c.distance
                 /\ <<d.rotationX, d.rotationY>> = <<c.rotationX, c.rotationY>>
                 /\ d.targetZ = c.targetZ
           /\ last'.op = "handleWheel" =>
                 /\ <<d.rotationX, d.rotationY>> = <<c.rotationX, c.rotationY>>
                 /\ <<d.targetX, d.targetY, d.targetZ>> =
                       <<c.targetX, c.targetY, c.targetZ>>
           /\ last'.op \in {"handleMouseMove", "handleWheel"} =>
                 /\ state'.hotspots = state.hotspots
                 /\ state'.selectedHotspotId = state.selectedHotspotId
                 /\ state'.isAddingHotspot = state.isAddingHotspot]_vars

\* a drag with the secondary button has panned over two hotspots
C30_PannedOverHotspots ==
    /\ last.op = "handleMouseMove"
    /\ state.mouseState.isDown
    /\ state.mouseState.button = 2
    /\ state.mouseState.lastY = 10
    /\ camEvents = 1
    /\ Len(state.hotspots) = 2
    /\ state.selectedHotspotId # NoSelection

=============================================================================
